---- MODULE Spec2Model ----
(***************************************************************************)
(* Cadence pipeline of notebooks/imu-stepcount.ipynb: data import, gravity *)
(* calibration, PCA motion axis, the three step counters, the sliding      *)
(* window loop, EMA smoothing, the same loop over the angular velocity    *)
(* magnitude, and the GPX export.                                          *)
(*                                                                         *)
(* Numbers.  The notebook computes in floating point; here every real is   *)
(* an exact rational <<n, d>> in lowest terms with d > 0, and a signal is  *)
(* a record [v |-> integers, s |-> rational scale > 0] standing for the    *)
(* values v[i] * s.  Rounding error is not modelled.                       *)
(*                                                                         *)
(* Library code (scipy, sklearn, pandas) is modelled by its documented     *)
(* behaviour where the notebook depends on it; each such definition says   *)
(* what it keeps and what it leaves out.                                   *)
(***************************************************************************)
EXTENDS Integers, Sequences, FiniteSets, TLC

VARIABLES
    csv,        \* the recording as read from the file: rows [time, a, g]
    df,         \* the DataFrame df: rows [time, a, g], a = <<aX, aY, aZ>> rationals,
                \* g = <<gX, gY, gZ>> integers
    gravity_vector, \* <<gX, gY, gZ>> rationals, or <<>> before calibration
    pca0,       \* the column df.pca0 as a signal, or Null before the PCA cell
    oracle,     \* names the strongest spectral bin of each window (see fft_dominant_freq)
    n_done,     \* how many windows the aggregation loop has completed
    calls,      \* the locals of get_spm at the end of each call, in call order
    spms,       \* the list spms of per-window results
    acceleration_spm_df, \* column name -> column, empty before the DataFrame is built
    track,      \* the points of the GPX track segment
    pc,         \* the cell (or loop position) the notebook is at
    exc,        \* the exception that stopped the run, "none" while running
    peak_detection_kwargs, \* the global of that name, <<>> while it is unbound
    gyro_calls, \* the locals of get_spm_for_period at the end of each call
    gyro_spms,  \* the list the rotation cell binds to the name spms
    spm_df,     \* the DataFrame spm_df of the rotation cell
    run,        \* 1, and 2 once the aggregation cell has been run again
    first_spms, \* the per-window results of the first run, kept for comparison
    arg,        \* the argument of a helper function applied on its own
    ret         \* and the value it returned

gyro_vars == <<gyro_calls, gyro_spms, spm_df>>

rerun_vars == <<run, first_spms>>

fun_vars == <<arg, ret>>

vars == <<csv, df, gravity_vector, pca0, oracle, n_done, calls, spms,
          acceleration_spm_df, track, pc, exc, peak_detection_kwargs,
          gyro_vars, rerun_vars, fun_vars>>

Null == [v |-> <<>>, s |-> <<0, 1>>]

---------------------------------------------------------------------------
(* Rationals *)

Abs(x) == IF x < 0 THEN -x ELSE x

Max(x, y) == IF x >= y THEN x ELSE y

Min(x, y) == IF x <= y THEN x ELSE y

RECURSIVE GCD(_, _)
GCD(x, y) == IF y = 0 THEN Abs(x) ELSE GCD(y, x % Abs(y))

Rat(n, d) ==
    LET g == GCD(n, d)
        sg == IF d < 0 THEN -1 ELSE 1
    IN  <<sg * (n \div g), sg * (d \div g)>>

RInt(n) == <<n, 1>>

RAdd(p, q) == Rat(p[1] * q[2] + q[1] * p[2], p[2] * q[2])

RSub(p, q) == Rat(p[1] * q[2] - q[1] * p[2], p[2] * q[2])

RMul(p, q) == Rat(p[1] * q[1], p[2] * q[2])

RDiv(p, q) == Rat(p[1] * q[2], p[2] * q[1])

RLeq(p, q) == p[1] * q[2] <= q[1] * p[2]

RLess(p, q) == p[1] * q[2] < q[1] * p[2]

RECURSIVE RSum(_, _, _)
\* sum of the rationals f[lo..hi], by halves
RSum(f, lo, hi) ==
    IF lo > hi THEN RInt(0)
    ELSE IF lo = hi THEN f[lo]
    ELSE LET mid == (lo + hi) \div 2
         IN  RAdd(RSum(f, lo, mid), RSum(f, mid + 1, hi))

RECURSIVE ISum(_, _, _)
\* sum of the integers f[lo..hi], by halves
ISum(f, lo, hi) ==
    IF lo > hi THEN 0
    ELSE IF lo = hi THEN f[lo]
    ELSE LET mid == (lo + hi) \div 2
         IN  ISum(f, lo, mid) + ISum(f, mid + 1, hi)

RECURSIVE GCDSeq(_, _, _)
\* greatest common divisor of the integers f[lo..hi] (0 when all are 0)
GCDSeq(f, lo, hi) ==
    IF lo > hi THEN 0
    ELSE IF lo = hi THEN Abs(f[lo])
    ELSE LET mid == (lo + hi) \div 2
         IN  GCD(GCDSeq(f, lo, mid), GCDSeq(f, mid + 1, hi))

LCM(x, y) == (x \div GCD(x, y)) * y

RECURSIVE LCMDen(_, _, _)
\* least common multiple of the denominators of f[lo..hi]
LCMDen(f, lo, hi) ==
    IF lo > hi THEN 1
    ELSE IF lo = hi THEN f[lo][2]
    ELSE LET mid == (lo + hi) \div 2
         IN  LCM(LCMDen(f, lo, mid), LCMDen(f, mid + 1, hi))

\* the same sequence, with every element computed once
Computed(f) == SubSeq(f, 1, Len(f))

\* a sequence of integers as a signal in canonical form (common factor in s)
Canon(f, s) ==
    LET v == Computed(f)
        g == GCDSeq(v, 1, Len(v))
    IN  IF g = 0 THEN [v |-> v, s |-> RInt(1)]
        ELSE [v |-> Computed([i \in 1..Len(v) |-> v[i] \div g]), s |-> RMul(s, RInt(g))]

\* a sequence of rationals as a signal
ToSignal(f) ==
    LET l == LCMDen(f, 1, Len(f))
    IN  Canon([i \in 1..Len(f) |-> f[i][1] * (l \div f[i][2])], Rat(1, l))

\* the i-th value of a signal, as a rational
At(x, i) == RMul(RInt(x.v[i]), x.s)

---------------------------------------------------------------------------
(* The recording.  One row every `period` ms; the device rests at         *)
(* RestAcc g and the motion shows on one axis as spikes of posAmp g every  *)
(* posEvery rows (first at row posAt) and of -negAmp g every negEvery rows *)
(* (first at row negAt).  Rows are counted from 0.  The foot turns about   *)
(* one axis at a rate that follows the same spikes.                        *)

MaxSpikeAmp == 8

MaxBin == 2

TimeOffset == 363328

RestAcc == <<0, 0, 1>>

Sessions ==
    { [n |-> 5, period |-> 10],
      [n |-> 8, period |-> 10],
      [n |-> 34, period |-> 10],
      [n |-> 120, period |-> 10],
      [n |-> 135, period |-> 10],
      [n |-> 58, period |-> 40],
      [n |-> 45, period |-> 250],
      [n |-> 134, period |-> 30],
      [n |-> 35, period |-> 30] }

Shapes ==
    { [ax |-> 1, posEvery |-> 0, posAt |-> 0, posAmp |-> 0,
       negEvery |-> 0, negAt |-> 0, negAmp |-> 0],
      [ax |-> 1, posEvery |-> 24, posAt |-> 10, posAmp |-> MaxSpikeAmp,
       negEvery |-> 0, negAt |-> 0, negAmp |-> 0],
      [ax |-> 2, posEvery |-> 200, posAt |-> 10, posAmp |-> MaxSpikeAmp,
       negEvery |-> 30, negAt |-> 22, negAmp |-> MaxSpikeAmp - 2],
      [ax |-> 3, posEvery |-> 24, posAt |-> 10, posAmp |-> MaxSpikeAmp,
       negEvery |-> 50, negAt |-> 22, negAmp |-> MaxSpikeAmp - 2],
      [ax |-> 1, posEvery |-> 200, posAt |-> 10, posAmp |-> MaxSpikeAmp,
       negEvery |-> 0, negAt |-> 0, negAmp |-> 0],
      [ax |-> 2, posEvery |-> 12, posAt |-> 4, posAmp |-> MaxSpikeAmp - 1,
       negEvery |-> 0, negAt |-> 0, negAmp |-> 0],
      [ax |-> 3, posEvery |-> 40, posAt |-> 10, posAmp |-> 3,
       negEvery |-> 0, negAt |-> 0, negAmp |-> 0] }

Spike(sh, i0) ==
    (IF sh.posEvery > 0 /\ i0 % sh.posEvery = sh.posAt % sh.posEvery THEN sh.posAmp ELSE 0)
    - (IF sh.negEvery > 0 /\ i0 % sh.negEvery = sh.negAt % sh.negEvery THEN sh.negAmp ELSE 0)

\* angular velocity about the first axis at row i0
GyroRate(sh, i0) == 10 * Spike(sh, i0)

Recording(se, sh) ==
    [i \in 1..se.n |->
        [time |-> TimeOffset + (i - 1) * se.period,
         a |-> [c \in 1..3 |-> RestAcc[c] + (IF c = sh.ax THEN Spike(sh, i - 1) ELSE 0)],
         g |-> <<GyroRate(sh, i - 1), 0, 0>>]]

---------------------------------------------------------------------------
(* Data import *)

RECURSIVE LeastTime(_, _, _)
LeastTime(rows, lo, hi) ==
    IF lo = hi THEN rows[lo].time
    ELSE LET mid == (lo + hi) \div 2
         IN  Min(LeastTime(rows, lo, mid), LeastTime(rows, mid + 1, hi))

RECURSIVE GreatestTime(_, _, _)
GreatestTime(rows, lo, hi) ==
    IF lo = hi THEN rows[lo].time
    ELSE LET mid == (lo + hi) \div 2
         IN  Max(GreatestTime(rows, lo, mid), GreatestTime(rows, mid + 1, hi))

\* df.time.min(), df.time.max()
MinTime(rows) == LeastTime(rows, 1, Len(rows))

MaxTime(rows) == GreatestTime(rows, 1, Len(rows))

\* df = pd.read_csv(..); df.time = df.time - df.time.min()
read_csv(file) ==
    LET t0 == MinTime(file)
    IN  [i \in 1..Len(file) |->
            [time |-> file[i].time - t0,
             a |-> [c \in 1..3 |-> RInt(file[i].a[c])],
             g |-> file[i].g]]

\* a file whose rows 20 and 21 were written in the opposite order
Disordered(rows) ==
    SubSeq(rows, 1, 19) \o <<rows[21], rows[20]>> \o SubSeq(rows, 22, Len(rows))

Init ==
    /\ \/ \E se \in Sessions, sh \in Shapes : csv = Recording(se, sh)
       \/ \E sh \in Shapes : csv = Disordered(Recording([n |-> 34, period |-> 10], sh))
    /\ df = <<>>
    /\ gravity_vector = <<>>
    /\ pca0 = Null
    /\ oracle \in 0..(MaxBin - 1)
    /\ n_done = 0
    /\ calls = <<>>
    /\ spms = <<>>
    /\ acceleration_spm_df = <<>>
    /\ track = <<>>
    /\ pc = "import"
    /\ exc = "none"
    /\ peak_detection_kwargs = <<>>
    /\ gyro_calls = <<>>
    /\ gyro_spms = <<>>
    /\ spm_df = <<>>
    /\ run = 1
    /\ first_spms = <<>>
    /\ arg = <<>>
    /\ ret = <<>>

Import ==
    /\ pc = "import"
    /\ df' = read_csv(csv)
    /\ pc' = "calibrate"
    /\ UNCHANGED <<csv, gravity_vector, pca0, oracle, n_done, calls, spms, acceleration_spm_df, track, exc>>
    /\ UNCHANGED <<peak_detection_kwargs, gyro_vars, rerun_vars, fun_vars>>

---------------------------------------------------------------------------
(* Gravity calibration and correction *)

CalibrationSamples == 9

GToMs2 == Rat(98, 10)

iloc_all(rows, k) == rows

\* _df = df.iloc[:9]: the first 9 rows, or all rows when there are fewer
iloc_head(rows, k) == SubSeq(rows, 1, Min(k, Len(rows)))

column_mean_fixed_count(rows) ==
    [c \in 1..3 |->
        RDiv(RSum([i \in 1..Len(rows) |-> rows[i].a[c]], 1, Len(rows)),
             RInt(CalibrationSamples))]

\* _df.loc[:, ["aX","aY","aZ"]].mean(): column means
column_mean(rows) ==
    [c \in 1..3 |->
        RDiv(RSum([i \in 1..Len(rows) |-> rows[i].a[c]], 1, Len(rows)), RInt(Len(rows)))]

Calibrate ==
    /\ pc = "calibrate"
    /\ gravity_vector' = column_mean(iloc_head(df, CalibrationSamples))
    /\ pc' = "correct"
    /\ UNCHANGED <<csv, df, pca0, oracle, n_done, calls, spms, acceleration_spm_df, track, exc>>
    /\ UNCHANGED <<peak_detection_kwargs, gyro_vars, rerun_vars, fun_vars>>

\* (df[a] - gravity_vector) * 9.8
correct_acceleration(rows, g) ==
    [i \in 1..Len(rows) |->
        [time |-> rows[i].time,
         a |-> [c \in 1..3 |-> RMul(RSub(rows[i].a[c], g[c]), GToMs2)],
         g |-> rows[i].g]]

Correct ==
    /\ pc = "correct"
    /\ df' = correct_acceleration(df, gravity_vector)
    /\ pc' = "pca"
    /\ UNCHANGED <<csv, gravity_vector, pca0, oracle, n_done, calls, spms, acceleration_spm_df, track, exc>>
    /\ UNCHANGED <<peak_detection_kwargs, gyro_vars, rerun_vars, fun_vars>>

---------------------------------------------------------------------------
(* Motion axis.  PCA().fit_transform centres the three columns, takes the  *)
(* directions of largest variance and returns the projections.  Only the   *)
(* case the recordings above produce is modelled: at most one column       *)
(* varies, so the first component is that coordinate axis and pca0 is the  *)
(* centred column, with the sign svd_flip gives it (the entry of largest   *)
(* magnitude, the first one on ties, is made positive).                    *)

NotCentred(rows, c) == [i \in 1..Len(rows) |-> rows[i].a[c]]

\* X - X.mean(axis=0), column c
Centred(rows, c) ==
    LET col == [i \in 1..Len(rows) |-> rows[i].a[c]]
        mean == RDiv(RSum(col, 1, Len(rows)), RInt(Len(rows)))
    IN  [i \in 1..Len(rows) |-> RSub(col[i], mean)]

VaryingAxes(rows) ==
    {c \in 1..3 : \E i \in 1..Len(rows) : rows[i].a[c] # rows[1].a[c]}

svd_flip(v) ==
    LET big == CHOOSE i \in 1..Len(v) :
                  /\ \A j \in 1..Len(v) : Abs(v[j]) <= Abs(v[i])
                  /\ \A j \in 1..(i - 1) : Abs(v[j]) < Abs(v[i])
    IN  IF v[big] < 0 THEN [i \in 1..Len(v) |-> -v[i]] ELSE v

pca_fit_transform(rows) ==
    LET axes == VaryingAxes(rows)
        c == IF axes = {} THEN 1 ELSE CHOOSE k \in axes : TRUE
        x == ToSignal(Centred(rows, c))
    IN  [v |-> Computed(svd_flip(x.v)), s |-> x.s]

ExtractAxis ==
    /\ pc = "pca"
    /\ pca0' = pca_fit_transform(df)
    /\ pc' = "aggregate"
    /\ UNCHANGED <<csv, df, gravity_vector, oracle, n_done, calls, spms, acceleration_spm_df, track, exc>>
    /\ UNCHANGED <<peak_detection_kwargs, gyro_vars, rerun_vars, fun_vars>>

---------------------------------------------------------------------------
(* scipy.signal.find_peaks(x, height=(h, None), distance=d, prominence=p)  *)
(* on a signal; kw is a record holding the conditions that are given.      *)
(* Returns the set of peak positions (1-based).                            *)

\* the last position of the run of equal values that starts at l
RunEnd(v, l) ==
    CHOOSE r \in l..Len(v) :
        /\ \A j \in l..r : v[j] = v[l]
        /\ (r = Len(v) \/ v[r + 1] # v[l])

\* _local_maxima_1d: the middle of every run that is higher than both of
\* its neighbours; the first and the last sample are never peaks
local_maxima(v) ==
    LET rises == {l \in 2..(Len(v) - 1) : v[l - 1] < v[l]}
        tops == {l \in rises : RunEnd(v, l) < Len(v) /\ v[RunEnd(v, l) + 1] < v[l]}
    IN  {(l + RunEnd(v, l)) \div 2 : l \in tops}

\* the peak _select_by_peak_distance visits next: the highest one, the
\* rightmost of equally high ones
Highest(v, todo) ==
    CHOOSE j \in todo : \A k \in todo : v[k] < v[j] \/ (v[k] = v[j] /\ k <= j)

RECURSIVE select_by_peak_distance(_, _, _, _)
select_by_peak_distance(v, keep, todo, d) ==
    IF todo = {} THEN keep
    ELSE LET j == Highest(v, todo)
         IN  IF j \notin keep
             THEN select_by_peak_distance(v, keep, todo \ {j}, d)
             ELSE select_by_peak_distance(
                      v, {k \in keep : k = j \/ Abs(k - j) >= d}, todo \ {j}, d)

\* the lowest value between the peak and the nearest higher sample on the
\* side `dir` (-1 left, 1 right), or the end of the signal
BaseMin(v, p, dir) ==
    LET higher == {i \in 1..Len(v) : (i - p) * dir > 0 /\ v[i] > v[p]}
        stop == IF higher = {} THEN (IF dir < 0 THEN 0 ELSE Len(v) + 1)
                ELSE CHOOSE i \in higher : \A k \in higher : Abs(k - p) >= Abs(i - p)
        span == {i \in 1..Len(v) : (i - stop) * dir < 0 /\ (i - p) * dir >= 0}
    IN  CHOOSE m \in {v[i] : i \in span} : \A i \in span : m <= v[i]

peak_prominence(v, p) == v[p] - Max(BaseMin(v, p, -1), BaseMin(v, p, 1))

\* integer w times the scale s reaches the threshold h
Reaches(w, s, h) == w * s[1] >= h * s[2]

find_peaks(x, kw) ==
    LET all == local_maxima(x.v)
        high == IF "height" \in DOMAIN kw
                THEN {p \in all : Reaches(x.v[p], x.s, kw.height)} ELSE all
        far == IF "distance" \in DOMAIN kw
               THEN select_by_peak_distance(x.v, high, high, kw.distance) ELSE high
    IN  IF "prominence" \in DOMAIN kw
        THEN {p \in far : Reaches(peak_prominence(x.v, p), x.s, kw.prominence)}
        ELSE far

Negated(x) == [v |-> Computed([i \in 1..Len(x.v) |-> -x.v[i]]), s |-> x.s]

peak_detection_steps_peaks_only(data, pos_kwargs, neg_kwargs) ==
    Cardinality(find_peaks(data, pos_kwargs))

\* max(len(peaks), len(neg_peaks))
peak_detection_steps(data, pos_kwargs, neg_kwargs) ==
    Max(Cardinality(find_peaks(data, pos_kwargs)),
        Cardinality(find_peaks(Negated(data), neg_kwargs)))

---------------------------------------------------------------------------
(* Filter bank.  butter(5, ..) designs the filter and filtfilt applies it  *)
(* forward and backward over the odd extension of the data.  The           *)
(* Butterworth coefficients are irrational, so integer taps of the same    *)
(* kind (band-, high-, low-pass) stand in for (b, a).  Kept: the check of  *)
(* the cutoffs, the number of coefficients and with it filtfilt's pad      *)
(* length and length check, the odd padding, the two passes, linearity.    *)
(* Left out: the frequency response itself.                                *)

fs == 100

ButterOrder == 5

\* cutoffs are in tenths of a hertz: fc / (fs / 2) lies strictly in (0, 1)
ValidCutoff(fc) == 0 < fc /\ 2 * fc < 10 * fs

\* len(b) = len(a) of butter(N, ..): 2N + 1 for a band-pass, N + 1 otherwise
NumCoef(btype) == IF btype = "bandpass" THEN 2 * ButterOrder + 1 ELSE ButterOrder + 1

Taps(btype) ==
    IF btype = "bandpass" THEN <<1, 0, -1>>
    ELSE IF btype = "highpass" THEN <<1, -1>>
    ELSE <<1, 1>>

\* odd_ext(x, n): the data continued by point reflection about both ends
odd_ext(v, n) ==
    LET N == Len(v)
    IN  Computed([i \in 1..(N + 2 * n) |->
            IF i <= n THEN 2 * v[1] - v[n + 2 - i]
            ELSE IF i <= n + N THEN v[i - n]
            ELSE 2 * v[N] - v[2 * N + n - i]])

\* lfilter(b, a, x, zi = zi * x[0]): one causal pass started in the steady
\* state of a constant input x[0]
lfilter(b, v) ==
    Computed([i \in 1..Len(v) |->
                 ISum([k \in 1..Len(b) |-> b[k] * v[Max(i - k + 1, 1)]], 1, Len(b))])

NotReversed(v) == v

\* x[::-1]
Reversed(v) == Computed([i \in 1..Len(v) |-> v[Len(v) + 1 - i]])

Raise(e) == [exc |-> e, x |-> Null]

Return(x) == [exc |-> "none", x |-> x]

PadLen(btype) == 3 * NumCoef(btype)

\* the forward and the backward pass over the padded data, padding cut off
filtfilt_passes(btype, x) ==
    LET ext == odd_ext(x.v, PadLen(btype))
        y == Reversed(lfilter(Taps(btype), Reversed(lfilter(Taps(btype), ext))))
    IN  Canon([i \in 1..Len(x.v) |-> y[i + PadLen(btype)]], x.s)

filtfilt_no_length_check(btype, x) ==
    IF Len(x.v) <= PadLen(btype) THEN Return(x) ELSE Return(filtfilt_passes(btype, x))

\* filtfilt(b, a, data), padlen = 3 * max(len(a), len(b)): raises unless
\* the data are longer than the padding
filtfilt(btype, x) ==
    IF Len(x.v) <= PadLen(btype) THEN Raise("ValueError")
    ELSE Return(filtfilt_passes(btype, x))

band_pass(data, fc_low, fc_high) ==
    IF ~(ValidCutoff(fc_low) /\ ValidCutoff(fc_high) /\ fc_low < fc_high)
    THEN Raise("ValueError")
    ELSE filtfilt("bandpass", data)

high_pass(data, fc_low) ==
    IF ~ValidCutoff(fc_low) THEN Raise("ValueError") ELSE filtfilt("highpass", data)

low_pass(data, fc_high) ==
    IF ~ValidCutoff(fc_high) THEN Raise("ValueError") ELSE filtfilt("lowpass", data)

\* an optional cutoff: None, or a frequency that is given
None == <<>>

Some(fc) == <<fc>>

filter_series_kinds_swapped(data, fc) ==
    IF fc[1] # None /\ fc[2] # None THEN band_pass(data, fc[1][1], fc[2][1])
    ELSE IF fc[1] # None THEN low_pass(data, fc[1][1])
    ELSE IF fc[2] # None THEN high_pass(data, fc[2][1])
    ELSE Return(data)

\* filter_series(data, fc_low, fc_high, fs); fc is the pair <<fc_low, fc_high>>
filter_series(data, fc) ==
    IF fc[1] # None /\ fc[2] # None THEN band_pass(data, fc[1][1], fc[2][1])
    ELSE IF fc[1] # None THEN high_pass(data, fc[1][1])
    ELSE IF fc[2] # None THEN low_pass(data, fc[2][1])
    ELSE Return(data)

---------------------------------------------------------------------------
(* Spectral and autocorrelation counters *)

\* f[np.argmax(Pxx)] of periodogram(data, fs): the strongest bin k of the
\* spectrum, as the frequency k * fs / N.  The spectrum is not computed:
\* all-zero data have no power anywhere and argmax returns bin 0; for any
\* other data the bin is the one the oracle names for this window.
fft_dominant_freq(data, bin) ==
    IF \A i \in 1..Len(data.v) : data.v[i] = 0 THEN RInt(0)
    ELSE Rat(Min(bin, Len(data.v) \div 2) * fs, Len(data.v))

\* the positions of the samples that are not zero, in increasing order
RECURSIVE Support(_, _, _)
Support(v, lo, hi) ==
    IF lo > hi THEN <<>>
    ELSE IF lo = hi THEN (IF v[lo] = 0 THEN <<>> ELSE <<lo>>)
    ELSE LET mid == (lo + hi) \div 2
         IN  Support(v, lo, mid) \o Support(v, mid + 1, hi)

\* np.correlate(x, x, mode='full')[k - 1]: the 2N - 1 lags -(N-1) .. N-1,
\* the sum over n of x[n] * x[n + lag]; nz lists the positions where x is
\* not zero, the only ones that add to the sum
correlate_full_at(v, nz, k) ==
    LET N == Len(v)
        lag == Abs(k - N)
    IN  ISum([m \in 1..Len(nz) |->
                 IF nz[m] + lag <= N THEN v[nz[m]] * v[nz[m] + lag] ELSE 0],
             1, Len(nz))

autocorr_keep_zero_lag(v) ==
    LET nz == Support(v, 1, Len(v))
    IN  Computed([k \in 1..((2 * Len(v) - 1) \div 2 + 1) |-> correlate_full_at(v, nz, k)])

\* result[:int(len(result)/2)]
autocorr(v) ==
    LET nz == Support(v, 1, Len(v))
    IN  Computed([k \in 1..((2 * Len(v) - 1) \div 2) |-> correlate_full_at(v, nz, k)])

autocorr_steps(data) == Cardinality(local_maxima(autocorr(data.v)))

to_steps_per_minute_fixed_window(step_count, dt) == Rat(step_count * 60, 10)

to_steps_per_minute_nan_without_steps(step_count, dt) ==
    IF step_count = 0 \/ dt[2] = 0 \/ dt[1] = 0 THEN <<0, 0>>
    ELSE RMul(RDiv(RInt(step_count), dt), RInt(60))

\* step_count / dt * 60, dt a rational number of seconds.  A zero dt gives
\* inf or nan in floating point and a nan dt gives nan; <<1, 0>> stands for
\* inf and <<0, 0>> for nan.
to_steps_per_minute(step_count, dt) ==
    IF dt[2] = 0 THEN <<0, 0>>
    ELSE IF dt[1] = 0 THEN <<IF step_count = 0 THEN 0 ELSE 1, 0>>
    ELSE RMul(RDiv(RInt(step_count), dt), RInt(60))

---------------------------------------------------------------------------
(* One window: get_spm *)

RECURSIVE RowsIn(_, _, _, _, _)
\* the indices lo..hi of the rows with from <= time < to, in row order
RowsIn(rows, from, to, lo, hi) ==
    IF lo > hi THEN <<>>
    ELSE IF lo = hi
         THEN (IF rows[lo].time >= from /\ rows[lo].time < to THEN <<lo>> ELSE <<>>)
    ELSE LET mid == (lo + hi) \div 2
         IN  RowsIn(rows, from, to, lo, mid) \o RowsIn(rows, from, to, mid + 1, hi)

get_time_period_closed(rows, a, b) == RowsIn(rows, a * 1000, b * 1000 + 1, 1, Len(rows))

\* df.loc[(df.time >= a * 1000) & (df.time < b * 1000)], as row indices
get_time_period(rows, a, b) == RowsIn(rows, a * 1000, b * 1000, 1, Len(rows))

\* two signals hold the same values
SameSeries(x, y) ==
    /\ Len(x.v) = Len(y.v)
    /\ \A k \in 1..Len(x.v) : x.v[k] * x.s[1] * y.s[2] = y.v[k] * y.s[1] * x.s[2]

\* data.loc[frame.index].values
Values(data, frame) ==
    [v |-> Computed([k \in 1..Len(frame) |-> data.v[frame[k]]]), s |-> data.s]

\* (frame.time.max() - frame.time.min()) / 1000.0; nan for an empty frame
FrameDt_one_second(rows, frame) == RInt(1)

FrameDt(rows, frame) ==
    IF frame = <<>> THEN <<0, 0>>
    ELSE LET sel == [k \in 1..Len(frame) |-> rows[frame[k]]]
         IN  Rat(MaxTime(sel) - MinTime(sel), 1000)

NoSpm == [peak_detection_spm |-> <<0, 0>>, fft_spm |-> <<0, 0>>,
          autocorrelation_spm |-> <<0, 0>>]

\* get_spm(data, a, b, peak_detection_fc, fft_fc, autocorrelation_fc,
\* peak_detection_kwargs), statement by statement.  The result holds the
\* exception raised ("none" when the function returns), the Series it
\* returns, and its locals.  An estimator is "ok" once its count or
\* frequency is computed, "raised" when its filter or it raised, and
\* "not run" when an earlier statement raised.
get_spm(rows, data, a, b, peak_fc, fft_fc, autocorrelation_fc, kwargs, bin) ==
    LET frame == get_time_period(rows, a, b)
        dt == FrameDt(rows, frame)
        window == Values(data, frame)
        d1 == filter_series(window, peak_fc)
        n_peak_steps == peak_detection_steps(d1.x, kwargs.pos_kwargs, kwargs.neg_kwargs)
        d2 == filter_series(window, fft_fc)
        dominant_freq == fft_dominant_freq(d2.x, bin)
        d3 == filter_series(window, autocorrelation_fc)
        n_autocorr_steps == autocorr_steps(d3.x)
        locals == [a |-> a, b |-> b, frame |-> frame, frame_len |-> Len(frame), dt |-> dt,
                   bands |-> [peak |-> peak_fc, fft |-> fft_fc,
                              autocorrelation |-> autocorrelation_fc],
                   peak_input_raw |-> FALSE,
                   flat |-> \A k \in 1..Len(frame) : window.v[k] = window.v[1],
                   zero |-> \A k \in 1..Len(frame) : window.v[k] = 0,
                   n_peaks |-> -1, n_neg_peaks |-> -1, n_peak_steps |-> -1,
                   dominant_freq |-> <<0, 0>>, n_autocorr_steps |-> -1,
                   peak |-> "not run", fft |-> "not run", autocorrelation |-> "not run"]
        after1 == [locals EXCEPT
                   !.n_peaks = Cardinality(find_peaks(d1.x, kwargs.pos_kwargs)),
                   !.n_neg_peaks = Cardinality(find_peaks(Negated(d1.x), kwargs.neg_kwargs)),
                   !.n_peak_steps = n_peak_steps,
                   !.peak_input_raw = SameSeries(d1.x, window),
                   !.peak = "ok"]
        after2 == [after1 EXCEPT !.dominant_freq = dominant_freq, !.fft = "ok"]
        after3 == [after2 EXCEPT !.n_autocorr_steps = n_autocorr_steps,
                                 !.autocorrelation = "ok"]
    IN  IF d1.exc # "none"
        THEN [exc |-> d1.exc, spm |-> NoSpm, locals |-> [locals EXCEPT !.peak = "raised"]]
        ELSE IF d2.exc # "none"
        THEN [exc |-> d2.exc, spm |-> NoSpm, locals |-> [after1 EXCEPT !.fft = "raised"]]
        ELSE IF d3.exc # "none"
        THEN [exc |-> d3.exc, spm |-> NoSpm,
              locals |-> [after2 EXCEPT !.autocorrelation = "raised"]]
        ELSE [exc |-> "none",
              spm |-> [peak_detection_spm |-> to_steps_per_minute(n_peak_steps, dt),
                       fft_spm |-> RMul(dominant_freq, RInt(60)),
                       autocorrelation_spm |-> to_steps_per_minute(n_autocorr_steps, dt)],
              locals |-> after3]

---------------------------------------------------------------------------
(* Window aggregation over the acceleration projection *)

WindowDt == 10

WindowStep == 1

PeakHeight == 35

PeakDistance == 20

PeakProminence == 20

\* the dict the aggregation cell binds to peak_detection_kwargs
peak_detection_kwargs_acceleration ==
    [pos_kwargs |-> [prominence |-> PeakProminence, distance |-> PeakDistance,
                     height |-> PeakHeight],
     neg_kwargs |-> [prominence |-> PeakProminence, distance |-> PeakDistance,
                     height |-> PeakHeight]]

aggregation_cell_kwargs_left_bound(bound) ==
    IF bound = <<>> THEN peak_detection_kwargs_acceleration ELSE bound

\* the value the loop of the aggregation cell reads from
\* peak_detection_kwargs when the name was bound to `bound` before the cell:
\* the cell binds its own dict first
aggregation_cell_kwargs(bound) == peak_detection_kwargs_acceleration

NoFilter == <<None, None>>

FftBand == <<Some(5), Some(40)>>

AutocorrelationBand == <<Some(3), Some(40)>>

\* len(np.arange(0, df.time.max() / 1000, step))
NumWindows(rows) ==
    (MaxTime(rows) + 1000 * WindowStep - 1) \div (1000 * WindowStep)

\* the bin the oracle names for the window that starts at a
OracleBin(a) == ((oracle + a) % MaxBin) + 1

np_arange_from_step(start, step, k) == start + (k + 1) * step

\* np.arange(start, stop, step)[k]
np_arange(start, step, k) == start + k * step

spms_after_call_any_outcome(list, a, r) ==
    IF r.exc # "none"
    THEN Append(list, [name |-> a, peak_detection_spm |-> r.spm.peak_detection_spm])
    ELSE Append(list, [name |-> a] @@ r.spm)

\* spm = get_spm(..); spm.name = a; spms += [spm]: the list after the loop
\* body ran for the window that starts at a with the outcome r of the call;
\* a call that raised leaves the statements after it unexecuted
spms_after_call(list, a, r) ==
    IF r.exc # "none" THEN list ELSE Append(list, [name |-> a] @@ r.spm)

\* peak_detection_kwargs = {..}; spms = []; dt = 10; step = 1.0
StartAggregation ==
    /\ pc = "aggregate"
    /\ peak_detection_kwargs' = aggregation_cell_kwargs(peak_detection_kwargs)
    /\ spms' = <<>>
    /\ calls' = <<>>
    /\ n_done' = 0
    /\ pc' = "windows"
    /\ UNCHANGED <<csv, df, gravity_vector, pca0, oracle, acceleration_spm_df, track, exc>>
    /\ UNCHANGED <<gyro_vars, rerun_vars, fun_vars>>

\* one pass of the loop body: b = a + dt; spm = get_spm(..); spm.name = a;
\* spms += [spm].  An exception in get_spm ends the cell.
Window ==
    /\ pc = "windows"
    /\ n_done < NumWindows(df)
    /\ LET a == np_arange(0, WindowStep, n_done)
           r == get_spm(df, pca0, a, a + WindowDt, NoFilter, FftBand,
                        AutocorrelationBand, peak_detection_kwargs, OracleBin(a))
       IN  /\ calls' = Append(calls, r.locals)
           /\ spms' = spms_after_call(spms, a, r)
           /\ IF r.exc # "none"
              THEN /\ exc' = r.exc
                   /\ pc' = "raised"
                   /\ UNCHANGED n_done
              ELSE /\ n_done' = n_done + 1
                   /\ UNCHANGED <<pc, exc>>
    /\ UNCHANGED <<csv, df, gravity_vector, pca0, oracle, acceleration_spm_df, track>>
    /\ UNCHANGED <<peak_detection_kwargs, gyro_vars, rerun_vars, fun_vars>>

---------------------------------------------------------------------------
(* Smoothing *)

AlphaNum == 3

AlphaDen == 10

RECURSIVE ewm_mean_swapped(_, _)
ewm_mean_swapped(x, i) ==
    IF i = 1 THEN x[1]
    ELSE RAdd(RMul(Rat(AlphaNum, AlphaDen), ewm_mean_swapped(x, i - 1)),
              RMul(Rat(AlphaDen - AlphaNum, AlphaDen), x[i]))

RECURSIVE ewm_mean_alpha_twice(_, _)
ewm_mean_alpha_twice(x, i) ==
    IF i = 1 THEN x[1]
    ELSE RAdd(RMul(Rat(AlphaNum, AlphaDen), ewm_mean_alpha_twice(x, i - 1)),
              RMul(Rat(AlphaNum, AlphaDen), x[i]))

RECURSIVE ewm_mean(_, _)
\* x.ewm(alpha=0.3, adjust=False).mean()[i - 1] for finite x:
\* y[0] = x[0], y[i] = (1 - alpha) * y[i-1] + alpha * x[i]
ewm_mean(x, i) ==
    IF i = 1 THEN x[1]
    ELSE RAdd(RMul(Rat(AlphaDen - AlphaNum, AlphaDen), ewm_mean(x, i - 1)),
              RMul(Rat(AlphaNum, AlphaDen), x[i]))

Column(rows, name) == Computed([i \in 1..Len(rows) |-> rows[i][name]])

Ewm(x) == Computed([i \in 1..Len(x) |-> ewm_mean(x, i)])

DataFrame(rows) ==
    [index |-> Column(rows, "name"),
     peak_detection_spm |-> Column(rows, "peak_detection_spm"),
     fft_spm |-> Column(rows, "fft_spm"),
     autocorrelation_spm |-> Column(rows, "autocorrelation_spm")]

with_ema_of_peak_only(frame) ==
    frame @@ [peak_detection_spm_EMA |-> Ewm(frame.peak_detection_spm)]

\* acceleration_spm_df["peak_detection_spm_EMA"] = ..ewm(..).mean() and
\* acceleration_spm_df["autocorrelation_spm_EMA"] = ..ewm(..).mean()
with_ema(frame) ==
    frame @@ [peak_detection_spm_EMA |-> Ewm(frame.peak_detection_spm),
              autocorrelation_spm_EMA |-> Ewm(frame.autocorrelation_spm)]

\* acceleration_spm_df = pd.DataFrame(spms) and its two EMA columns
Smooth ==
    /\ pc = "windows"
    /\ n_done = NumWindows(df)
    /\ IF spms = <<>>
       THEN \* an empty DataFrame has no column peak_detection_spm
            /\ exc' = "AttributeError"
            /\ pc' = "raised"
            /\ UNCHANGED acceleration_spm_df
       ELSE /\ acceleration_spm_df' = with_ema(DataFrame(spms))
            /\ pc' = "rotation"
            /\ UNCHANGED exc
    /\ UNCHANGED <<csv, df, gravity_vector, pca0, oracle, n_done, calls, spms, track>>
    /\ UNCHANGED <<peak_detection_kwargs, gyro_vars, rerun_vars, fun_vars>>

---------------------------------------------------------------------------
(* Measuring steps from rotation: the same loop over the magnitude of the  *)
(* angular velocity, through get_spm_for_period.                           *)

GyroHeight == 50

GyroBand == <<Some(5), Some(20)>>

\* the dict the rotation cell binds to peak_detection_kwargs
peak_detection_kwargs_rotation ==
    [pos_kwargs |-> [height |-> GyroHeight], neg_kwargs |-> [height |-> GyroHeight]]

\* np.sqrt of a sum of squares; the recordings make it a whole number
Sqrt(n, bound) == CHOOSE r \in 0..bound : r * r = n

\* get_magnitude(data, fc_low, fc_high, fs): the Euclidean norm of every
\* row, filtered when a cutoff is given
get_magnitude(data, fc) ==
    LET magnitude ==
            [v |-> Computed([k \in 1..Len(data) |->
                       Sqrt(data[k][1] * data[k][1] + data[k][2] * data[k][2]
                                + data[k][3] * data[k][3],
                            Abs(data[k][1]) + Abs(data[k][2]) + Abs(data[k][3]))]),
             s |-> <<1, 1>>]
    IN  IF fc[1] # None /\ fc[2] # None THEN band_pass(magnitude, fc[1][1], fc[2][1])
        ELSE IF fc[1] # None THEN high_pass(magnitude, fc[1][1])
        ELSE IF fc[2] # None THEN low_pass(magnitude, fc[2][1])
        ELSE Return(magnitude)

\* get_spm_for_period(a, b, columns, fc_low, fc_high, peak_detection_kwargs):
\* one filtered magnitude feeds all three counters
get_spm_for_period(rows, a, b, columns, fc, kwargs, bin) ==
    LET frame == get_time_period(rows, a, b)
        dt == FrameDt(rows, frame)
        selected == [k \in 1..Len(frame) |-> rows[frame[k]][columns]]
        raw == get_magnitude(selected, NoFilter).x
        aMagnitude == get_magnitude(selected, fc)
        n_peak_steps == peak_detection_steps(aMagnitude.x, kwargs.pos_kwargs,
                                             kwargs.neg_kwargs)
        dominant_freq == fft_dominant_freq(aMagnitude.x, bin)
        n_autocorr_steps == autocorr_steps(aMagnitude.x)
        locals == [a |-> a, b |-> b, frame_len |-> Len(frame), dt |-> dt,
                   bands |-> [peak |-> fc, fft |-> fc, autocorrelation |-> fc],
                   peak_input_raw |-> FALSE, n_peak_steps |-> -1,
                   magnitude |-> "raised"]
    IN  IF aMagnitude.exc # "none"
        THEN [exc |-> aMagnitude.exc, spm |-> NoSpm, locals |-> locals]
        ELSE [exc |-> "none",
              spm |-> [peak_detection_spm |-> to_steps_per_minute(n_peak_steps, dt),
                       fft_spm |-> RMul(dominant_freq, RInt(60)),
                       autocorrelation_spm |-> to_steps_per_minute(n_autocorr_steps, dt)],
              locals |-> [locals EXCEPT
                          !.peak_input_raw = SameSeries(aMagnitude.x, raw),
                          !.n_peak_steps = n_peak_steps,
                          !.magnitude = "ok"]]

\* peak_detection_kwargs = {..}; spms = []; dt = 10; step = 1
StartRotation ==
    /\ pc = "rotation"
    /\ peak_detection_kwargs' = peak_detection_kwargs_rotation
    /\ gyro_spms' = <<>>
    /\ gyro_calls' = <<>>
    /\ pc' = "gyro_windows"
    /\ UNCHANGED <<csv, df, gravity_vector, pca0, oracle, n_done, calls, spms,
                   acceleration_spm_df, track, exc, spm_df>>
    /\ UNCHANGED <<rerun_vars, fun_vars>>

\* one pass of the loop body of the rotation cell
GyroWindow ==
    /\ pc = "gyro_windows"
    /\ Len(gyro_spms) < NumWindows(df)
    /\ LET a == np_arange(0, WindowStep, Len(gyro_spms))
           r == get_spm_for_period(df, a, a + WindowDt, "g", GyroBand,
                                   peak_detection_kwargs, OracleBin(a + 1))
       IN  /\ gyro_calls' = Append(gyro_calls, r.locals)
           /\ gyro_spms' = spms_after_call(gyro_spms, a, r)
           /\ IF r.exc # "none"
              THEN /\ exc' = r.exc
                   /\ pc' = "raised"
              ELSE UNCHANGED <<pc, exc>>
    /\ UNCHANGED <<csv, df, gravity_vector, pca0, oracle, n_done, calls, spms,
                   acceleration_spm_df, track, peak_detection_kwargs, spm_df>>
    /\ UNCHANGED <<rerun_vars, fun_vars>>

\* spm_df = pd.DataFrame(spms)
GyroDataFrame ==
    /\ pc = "gyro_windows"
    /\ Len(gyro_spms) = NumWindows(df)
    /\ spm_df' = DataFrame(gyro_spms)
    /\ pc' = "export"
    /\ UNCHANGED <<csv, df, gravity_vector, pca0, oracle, n_done, calls, spms,
                   acceleration_spm_df, track, exc, peak_detection_kwargs,
                   gyro_calls, gyro_spms>>
    /\ UNCHANGED <<rerun_vars, fun_vars>>

---------------------------------------------------------------------------
(* GPX export *)

MaxCadence == 254

SessionStart == 1600103234

\* int(x) of a finite x: the integer part, towards zero
IntPart(x) == IF x[1] >= 0 THEN x[1] \div x[2] ELSE -((-x[1]) \div x[2])

get_cadence_extension_unclamped(cadence) ==
    IF cadence[2] = 0 THEN MaxCadence ELSE IntPart(cadence)

\* str(int(cadence if cadence <= 254 else 254)); the text is the decimal
\* numeral of the integer kept here.  inf and nan fail the comparison.
get_cadence_extension(cadence) ==
    IF cadence[2] # 0 /\ RLeq(cadence, RInt(MaxCadence)) THEN IntPart(cadence)
    ELSE MaxCadence

get_point(time, cadence) == [time |-> time, cad |-> get_cadence_extension(cadence)]

\* timestamps = [timestamp + timedelta(seconds=x) for x in df.index];
\* segment.points = [get_point(t, c) for t, c in zip(timestamps, cadence)]
get_gpx(timestamps, cadence) ==
    [i \in 1..Min(Len(timestamps), Len(cadence)) |-> get_point(timestamps[i], cadence[i])]

cadence_series_autocorrelation(frame) == frame.autocorrelation_spm_EMA

\* cadence = acceleration_spm_df.peak_detection_spm_EMA
cadence_series(frame) == frame.peak_detection_spm_EMA

\* timestamp, timestamps, cadence and the write of get_gpx(..).to_xml()
Export ==
    /\ pc = "export"
    /\ track' = get_gpx([i \in 1..Len(acceleration_spm_df.index) |->
                            SessionStart + acceleration_spm_df.index[i]],
                        cadence_series(acceleration_spm_df))
    /\ pc' = "done"
    /\ UNCHANGED <<csv, df, gravity_vector, pca0, oracle, n_done, calls, spms,
                   acceleration_spm_df, exc>>
    /\ UNCHANGED <<peak_detection_kwargs, gyro_vars, rerun_vars, fun_vars>>

---------------------------------------------------------------------------
Next ==
    \/ Import \/ Calibrate \/ Correct \/ ExtractAxis
    \/ StartAggregation \/ Window \/ Smooth
    \/ StartRotation \/ GyroWindow \/ GyroDataFrame
    \/ Export

Spec == Init /\ [][Next]_vars

---------------------------------------------------------------------------
(* Properties *)

Alpha == Rat(AlphaNum, AlphaDen)

\* sm starts at raw[1] and then sm[i] = alpha * raw[i] + (1 - alpha) * sm[i-1]
FollowsRecurrence(sm, raw) ==
    /\ Len(sm) = Len(raw)
    /\ Len(sm) > 0 => sm[1] = raw[1]
    /\ \A i \in 2..Len(sm) :
          sm[i] = RAdd(RMul(Alpha, raw[i]), RMul(RSub(RInt(1), Alpha), sm[i - 1]))

Smoothed == pc \in {"rotation", "gyro_windows", "export", "done"}

C2_AllThreeSmoothed ==
    Smoothed =>
        {"peak_detection_spm_EMA", "fft_spm_EMA", "autocorrelation_spm_EMA"}
            \subseteq DOMAIN acceleration_spm_df

\* C2: after aggregation the frame holds a raw column of one value per
\* window for each of the three methods, and a smoothed column of one
\* value per window for the peak and the autocorrelation method only; the
\* spectral method has no smoothed column.
C2_SmoothedColumns ==
    Smoothed =>
        /\ DOMAIN acceleration_spm_df =
              {"index", "peak_detection_spm", "fft_spm", "autocorrelation_spm",
               "peak_detection_spm_EMA", "autocorrelation_spm_EMA"}
        /\ \A col \in DOMAIN acceleration_spm_df :
              Len(acceleration_spm_df[col]) = NumWindows(df)

\* an exported session of two or more windows with a spectral estimate
\* that is not zero
C2_Witness ==
    /\ pc = "done"
    /\ Len(spms) >= 2
    /\ \E i \in 1..Len(spms) : acceleration_spm_df.fft_spm[i] # RInt(0)

\* C3: every exported point carries an integer cadence in 0..254; it is 254
\* when the smoothed peak cadence handed over is above 254 and the integer
\* part of that cadence otherwise, and there is one point per smoothed value.
C3_CadenceClamped ==
    pc = "done" =>
        /\ Len(track) = Len(acceleration_spm_df.peak_detection_spm_EMA)
        /\ \A i \in 1..Len(track) :
              LET c == acceleration_spm_df.peak_detection_spm_EMA[i]
                  cad == track[i].cad
              IN  /\ cad \in 0..MaxCadence
                  /\ RLess(RInt(MaxCadence), c) => cad = MaxCadence
                  /\ RLeq(c, RInt(MaxCadence)) =>
                        RLeq(RInt(cad), c) /\ RLess(c, RInt(cad + 1))

\* an export with a value above the ceiling, written as 254
C3_Witness ==
    /\ pc = "done"
    /\ \E i \in 1..Len(track) :
          /\ RLess(RInt(MaxCadence), acceleration_spm_df.peak_detection_spm_EMA[i])
          /\ track[i].cad = MaxCadence

\* C4: in every window whose peak counter ran, the step count is the larger
\* of the number of maxima found and the number of minima found (maxima of
\* the negated series).
C4_PeakCountIsMax ==
    \A i \in 1..Len(calls) :
        calls[i].peak = "ok" =>
            /\ calls[i].n_peak_steps >= calls[i].n_peaks
            /\ calls[i].n_peak_steps >= calls[i].n_neg_peaks
            /\ calls[i].n_peak_steps \in {calls[i].n_peaks, calls[i].n_neg_peaks}

\* a window with more minima than maxima and at least one maximum, so that
\* the maximum differs from the count of maxima, the minimum and the sum
C4_Witness ==
    \E i \in 1..Len(calls) :
        /\ calls[i].peak = "ok"
        /\ calls[i].n_neg_peaks > calls[i].n_peaks
        /\ calls[i].n_peaks > 0
        /\ calls[i].n_peak_steps = calls[i].n_neg_peaks

\* the time in ms between the earliest and the latest sample of the window
\* that starts at second a
SampleSpan(a) ==
    LET ts == {df[k].time : k \in {m \in 1..Len(df) :
                  df[m].time >= 1000 * a /\ df[m].time < 1000 * (a + WindowDt)}}
    IN  (CHOOSE t \in ts : \A u \in ts : u <= t) - (CHOOSE t \in ts : \A u \in ts : t <= u)

\* C5 as stated: the peak and autocorrelation steps per minute of every
\* analysed window are count / 10 s * 60.
C5_FixedWindowDuration ==
    \A i \in 1..Len(spms) :
        /\ spms[i].peak_detection_spm = Rat(calls[i].n_peak_steps * 60, WindowDt)
        /\ spms[i].autocorrelation_spm = Rat(calls[i].n_autocorr_steps * 60, WindowDt)

\* C5: the peak and autocorrelation steps per minute of every analysed
\* window are count / d * 60, where d is the time in seconds between the
\* earliest and the latest sample that fall in the window.
C5_SampleSpanDuration ==
    \A i \in 1..Len(spms) :
        /\ spms[i].peak_detection_spm =
              Rat(calls[i].n_peak_steps * 60 * 1000, SampleSpan(spms[i].name))
        /\ spms[i].autocorrelation_spm =
              Rat(calls[i].n_autocorr_steps * 60 * 1000, SampleSpan(spms[i].name))

\* an analysed window that reaches past the last sample and one that does
\* not, both with steps counted and neither spanning 10 s of samples
C5_Witness ==
    /\ \E i \in 1..Len(spms) :
          /\ calls[i].n_peak_steps > 0
          /\ calls[i].n_autocorr_steps > 0
          /\ 1000 * (spms[i].name + WindowDt) > MaxTime(df) + 1
          /\ SampleSpan(spms[i].name) <= 1000 * (WindowDt - 1)
    /\ \E i \in 1..Len(spms) :
          /\ calls[i].n_peak_steps > 0
          /\ 1000 * (spms[i].name + WindowDt) <= MaxTime(df)
          /\ SampleSpan(spms[i].name) # 1000 * WindowDt

\* the least number of samples the two filtered estimators accept
MinSamples == PadLen("bandpass") + 1

C7_FlatWindowNoValue ==
    \A i \in 1..Len(calls) :
        calls[i].flat =>
            /\ Len(spms) < i
            /\ calls[i].peak # "ok"

\* C7: a flat window of more than 33 samples over a positive time raises
\* nothing and is recorded with a numeric peak value of 0 steps per minute;
\* when it is all zero its spectral and autocorrelation values are 0 as well.
C7_FlatWindowIsZero ==
    \A i \in 1..Len(calls) :
        (calls[i].flat /\ calls[i].frame_len >= MinSamples
                       /\ RLess(RInt(0), calls[i].dt)) =>
            /\ calls[i].peak = "ok" /\ calls[i].fft = "ok"
            /\ calls[i].autocorrelation = "ok"
            /\ Len(spms) >= i
            /\ spms[i].peak_detection_spm = RInt(0)
            /\ calls[i].zero =>
                  /\ spms[i].fft_spm = RInt(0)
                  /\ spms[i].autocorrelation_spm = RInt(0)

\* an all-zero window recorded with 0 steps per minute for every method
C7_Witness ==
    \E i \in 1..Len(spms) :
        /\ calls[i].zero
        /\ spms[i].peak_detection_spm = RInt(0)
        /\ spms[i].fft_spm = RInt(0)
        /\ spms[i].autocorrelation_spm = RInt(0)

\* C8 as stated: once the aggregation has ended, with or without a failed
\* window, every window of the session has been visited.
C8_EveryWindowVisited ==
    pc \in {"raised", "export", "done"} => Len(calls) = NumWindows(df)

MeanOfFirst(k) ==
    [c \in 1..3 |-> Rat(ISum([i \in 1..k |-> csv[i].a[c]], 1, k), k)]

C10_GravityMeanAndCorrection ==
    (Len(csv) >= CalibrationSamples /\ pc \notin {"import", "calibrate"}) =>
        /\ gravity_vector = MeanOfFirst(CalibrationSamples)
        /\ pc # "correct" =>
              \A i \in 1..Len(df) : \A c \in 1..3 :
                 df[i].a[c] = RMul(RSub(RInt(csv[i].a[c]), gravity_vector[c]), Rat(98, 10))
        /\ (\A i \in 1..CalibrationSamples : csv[i].a = RestAcc) =>
              /\ gravity_vector = <<RInt(0), RInt(0), RInt(1)>>
              /\ pc # "correct" =>
                    \A i \in 1..Len(df) :
                       csv[i].a = RestAcc => df[i].a = <<RInt(0), RInt(0), RInt(0)>>

\* a corrected recording whose first 9 rows are (0,0,1), with a later row
\* at rest corrected to zero and a later row in motion that is not
C10_Witness ==
    /\ pc = "pca"
    /\ Len(csv) > CalibrationSamples
    /\ \A i \in 1..CalibrationSamples : csv[i].a = RestAcc
    /\ \E i \in (CalibrationSamples + 1)..Len(csv) :
          csv[i].a # RestAcc /\ df[i].a # <<RInt(0), RInt(0), RInt(0)>>
    /\ \E i \in (CalibrationSamples + 1)..Len(csv) :
          csv[i].a = RestAcc /\ df[i].a = <<RInt(0), RInt(0), RInt(0)>>

\* C11 as stated: in every window of both loops the peak counter is given
\* the window's raw series (no band applied to it), while the spectral and
\* the autocorrelation counter are each given that series filtered with a
\* band of their own.
C11_PeakInputUnfiltered ==
    LET Holds(c) ==
            /\ c.peak_input_raw
            /\ c.bands.peak = NoFilter
            /\ c.bands.fft # NoFilter
            /\ c.bands.autocorrelation # NoFilter
    IN  /\ \A i \in 1..Len(calls) : calls[i].peak = "ok" => Holds(calls[i])
        /\ \A i \in 1..Len(gyro_calls) :
              gyro_calls[i].magnitude = "ok" => Holds(gyro_calls[i])

---------------------------------------------------------------------------
(* The 20 s scenario: 2000 samples at 100 Hz with 26 spikes, one every 77  *)
(* samples, run through the cells up to the end of the aggregation loop.   *)
(* The smoothed values of this scenario have denominators beyond the       *)
(* integers of the checker, so the smoothing cell is left out here and the *)
(* smoothed series is enclosed in thousandths of a step per minute.        *)

Scenario == [n |-> 2000, spacing |-> 77]

ScenarioPhases == {0, 30, 40, 74}

ScenarioInit ==
    /\ \E ph \in ScenarioPhases :
          csv = Recording([n |-> Scenario.n, period |-> 1000 \div fs],
                          [ax |-> 1, posEvery |-> Scenario.spacing, posAt |-> ph,
                           posAmp |-> MaxSpikeAmp,
                           negEvery |-> 0, negAt |-> 0, negAmp |-> 0])
    /\ df = <<>>
    /\ gravity_vector = <<>>
    /\ pca0 = Null
    /\ oracle = 0
    /\ n_done = 0
    /\ calls = <<>>
    /\ spms = <<>>
    /\ acceleration_spm_df = <<>>
    /\ track = <<>>
    /\ pc = "import"
    /\ exc = "none"
    /\ peak_detection_kwargs = <<>>
    /\ gyro_calls = <<>>
    /\ gyro_spms = <<>>
    /\ spm_df = <<>>
    /\ run = 1
    /\ first_spms = <<>>
    /\ arg = <<>>
    /\ ret = <<>>

ScenarioNext ==
    Import \/ Calibrate \/ Correct \/ ExtractAxis \/ StartAggregation \/ Window

ScenarioSpec == ScenarioInit /\ [][ScenarioNext]_vars

\* the peak estimate of recorded window i in thousandths of a step per
\* minute, rounded down
MilliSpm(i) ==
    (60000 * calls[i].n_peak_steps * 1000) \div ((1000 * calls[i].dt[1]) \div calls[i].dt[2])

\* an enclosure <<lo, hi>> of smoothed[i], in thousandths, from the
\* recurrence smoothed[i] = 0.3 * raw[i] + 0.7 * smoothed[i-1]
RECURSIVE SmoothedBetween(_)
SmoothedBetween(i) ==
    IF i = 1 THEN <<MilliSpm(1), MilliSpm(1) + 1>>
    ELSE LET prev == SmoothedBetween(i - 1)
         IN  <<(AlphaNum * MilliSpm(i) + (AlphaDen - AlphaNum) * prev[1]) \div AlphaDen,
               (AlphaNum * (MilliSpm(i) + 1) + (AlphaDen - AlphaNum) * prev[2]
                   + AlphaDen - 1) \div AlphaDen>>

\* C12 as stated: in the 20 s scenario every window counts about 13 steps
\* (12 to 14), about 78 steps per minute (70 to 86), and the smoothed value
\* stays in that range up to the last window.
C12_EveryWindowThirteen ==
    \A i \in 1..Len(spms) :
        /\ calls[i].n_peak_steps \in 12..14
        /\ 70000 <= MilliSpm(i) /\ MilliSpm(i) <= 86000
        /\ 70000 <= SmoothedBetween(i)[1] /\ SmoothedBetween(i)[2] <= 86000

\* C12: in the 20 s scenario the 11 windows that start at 0..10 s hold 1000
\* samples and count 12 or 13 steps (72.07 or 78.08 steps per minute over
\* their 9.99 s of samples) and the smoothed value stays between 72 and
\* 78.1 there; the windows that start at 11..19 s hold only the remaining
\* 900..100 samples, count fewer steps (11 or 12 down to 1 or 2), give
\* between 60 and 122 steps per minute, and the smoothed value stays
\* between 65 and 97.
C12_ScenarioEstimates ==
    \A i \in 1..Len(spms) :
        LET c == calls[i]
            full == c.a <= 10
        IN  /\ c.a = i - 1
            /\ c.frame_len = IF full THEN 1000 ELSE Scenario.n - 100 * c.a
            /\ c.n_peak_steps \in {(c.frame_len - 2) \div Scenario.spacing,
                                   (c.frame_len - 2) \div Scenario.spacing + 1}
            /\ spms[i].peak_detection_spm =
                  Rat(60 * 100 * c.n_peak_steps, c.frame_len - 1)
            /\ 60000 <= MilliSpm(i) /\ MilliSpm(i) <= 122000
            /\ full => (MilliSpm(i) \in {72072, 78078}
                        /\ 72000 <= SmoothedBetween(i)[1]
                        /\ SmoothedBetween(i)[2] <= 78100)
            /\ 65000 <= SmoothedBetween(i)[1] /\ SmoothedBetween(i)[2] <= 97000

\* all 20 windows of the scenario recorded: a full window of 13 steps, a
\* full window of 12 steps and a last window of one step
C12_Witness ==
    /\ Len(csv) = Scenario.n
    /\ Len(spms) = 20
    /\ \E i \in 1..11 : calls[i].n_peak_steps = 13
    /\ \E i \in 1..11 : calls[i].n_peak_steps = 12
    /\ calls[20].n_peak_steps = 1

\* C13 as stated: the series of every window lists its samples in
\* non-decreasing time order, whatever the order of the rows in the file.
C13_WindowInTimeOrder ==
    \A i \in 1..Len(calls) :
        \A k \in 1..(Len(calls[i].frame) - 1) :
            df[calls[i].frame[k]].time <= df[calls[i].frame[k + 1]].time

\* C14: the aggregation loop evaluates windows of the one fixed duration
\* WindowDt (10 s) whose starts are 0, step, 2 * step, .. with the one
\* fixed step WindowStep (1 s), smaller than the duration; the recorded
\* per-window results and the smoothed frame derived from them are indexed
\* by these starts, strictly increasing, none repeated and none skipped.
C14_WindowsAdvanceByStep ==
    /\ WindowStep < WindowDt
    /\ \A i \in 1..Len(calls) :
          /\ calls[i].a = (i - 1) * WindowStep
          /\ calls[i].b = calls[i].a + WindowDt
    /\ Len(spms) = n_done
    /\ \A i \in 1..Len(spms) : spms[i].name = calls[i].a
    /\ \A i \in 1..(Len(spms) - 1) : spms[i].name < spms[i + 1].name
    /\ Smoothed =>
          /\ Len(acceleration_spm_df.index) = Len(spms)
          /\ Len(acceleration_spm_df.peak_detection_spm_EMA) = Len(spms)
          /\ \A i \in 1..Len(spms) :
                acceleration_spm_df.index[i] = (i - 1) * WindowStep

\* a run that recorded and smoothed at least three overlapping windows
C14_Witness ==
    /\ Smoothed
    /\ Len(acceleration_spm_df.index) >= 3
    /\ calls[2].a < calls[1].b
    /\ acceleration_spm_df.index[3] = 2 * WindowStep

\* C15: the exported track holds exactly one point per entry of the
\* smoothed peak-based series, in the same order; point i carries the
\* session start plus the start of window i in seconds, and the clamped
\* i-th smoothed peak-based value as its cadence.
C15_TrackFollowsSmoothedPeak ==
    pc = "done" =>
        /\ Len(track) = Len(acceleration_spm_df.peak_detection_spm_EMA)
        /\ Len(track) = Len(spms)
        /\ \A i \in 1..Len(track) :
              LET smoothed == acceleration_spm_df.peak_detection_spm_EMA[i]
              IN  /\ track[i].time = SessionStart + spms[i].name
                  /\ track[i].cad =
                        IF smoothed[2] # 0 /\ smoothed[1] <= MaxCadence * smoothed[2]
                        THEN smoothed[1] \div smoothed[2]
                        ELSE MaxCadence

\* an exported track of several points, one of them where the smoothed
\* autocorrelation value would have given another cadence
C15_Witness ==
    /\ pc = "done"
    /\ Len(track) >= 3
    /\ \E i \in 1..Len(track) :
          /\ track[i].cad # MaxCadence
          /\ track[i].cad > 0
          /\ track[i].cad #
                get_cadence_extension(acceleration_spm_df.autocorrelation_spm_EMA[i])

---------------------------------------------------------------------------
(* The helper functions applied on their own: the smoothing of a column    *)
(* and the three filters of an impulse.                                    *)

MaxSeriesLen == 4

RawValues == {0, 1, 60, 78}

\* the columns of raw per-window estimates, of every length up to the bound
RawColumns ==
    UNION {[1..n -> {RInt(k) : k \in RawValues}] : n \in 1..MaxSeriesLen}

\* a series of n samples, all zero but the one at index at
Impulse(n, at, amp) ==
    [v |-> Computed([i \in 1..n |-> IF i = at THEN amp ELSE 0]), s |-> <<1, 1>>]

\* the impulses tried: 70 samples, twice the longest padding and more
Impulses ==
    {[x |-> Impulse(70, at, amp), at |-> at] : at \in 1..70, amp \in {-1, 1, MaxSpikeAmp}}

\* a series of n samples that all hold the value c
Constant(n, c) == [v |-> Computed([i \in 1..n |-> c]), s |-> <<1, 1>>]

\* the series given to filter_series: constant ones around the two padding
\* lengths (18 and 33 samples), and an impulse
FilterInputs ==
    {Constant(n, c) : n \in {18, 19, 33, 34, 40}, c \in {-2, 1, MaxSpikeAmp}}
        \cup {Impulse(40, 20, MaxSpikeAmp)}

\* the cutoffs given to filter_series, in tenths of a hertz: none, zero,
\* two inside the band butter accepts, and one beyond fs / 2
Cutoffs == {None, Some(0), Some(5), Some(40), Some(600)}

\* the window series given to autocorr_steps: every series of 1 to 6
\* samples over three values
CorrInputs == UNION {[1..n -> {-1, 0, 1}] : n \in 1..6}

FunInit ==
    /\ \/ \E x \in RawColumns : arg = [f |-> "ewm", x |-> Computed(x)]
       \/ \E x \in CorrInputs :
             arg = [f |-> "autocorr_steps", x |-> [v |-> Computed(x), s |-> <<1, 1>>]]
       \/ \E x \in FilterInputs, fc_low \in Cutoffs, fc_high \in Cutoffs :
             arg = [f |-> "filter_series", x |-> x, fc |-> <<fc_low, fc_high>>]
       \/ \E f \in {"low_pass", "high_pass", "band_pass"}, im \in Impulses :
             arg = [f |-> f, x |-> im.x, at |-> im.at]
    /\ ret = <<>>
    /\ pc = "call"
    /\ csv = <<>>
    /\ df = <<>>
    /\ gravity_vector = <<>>
    /\ pca0 = Null
    /\ oracle = 0
    /\ n_done = 0
    /\ calls = <<>>
    /\ spms = <<>>
    /\ acceleration_spm_df = <<>>
    /\ track = <<>>
    /\ exc = "none"
    /\ peak_detection_kwargs = <<>>
    /\ gyro_calls = <<>>
    /\ gyro_spms = <<>>
    /\ spm_df = <<>>
    /\ run = 1
    /\ first_spms = <<>>

Returns(value) ==
    /\ ret' = value
    /\ pc' = "returned"
    /\ UNCHANGED <<csv, df, gravity_vector, pca0, oracle, n_done, calls, spms,
                   acceleration_spm_df, track, exc, peak_detection_kwargs,
                   gyro_vars, rerun_vars, arg>>

\* x.ewm(alpha=0.3, adjust=False).mean()
Call_ewm == pc = "call" /\ arg.f = "ewm" /\ Returns(Ewm(arg.x))

\* low_pass(data, 4.0, fs)
Call_low_pass ==
    pc = "call" /\ arg.f = "low_pass" /\ Returns(low_pass(arg.x, FftBand[2][1]))

\* high_pass(data, 0.5, fs)
Call_high_pass ==
    pc = "call" /\ arg.f = "high_pass" /\ Returns(high_pass(arg.x, FftBand[1][1]))

\* band_pass(data, 0.5, 4.0, fs)
Call_band_pass ==
    pc = "call" /\ arg.f = "band_pass"
    /\ Returns(band_pass(arg.x, FftBand[1][1], FftBand[2][1]))

\* filter_series(data, fc_low, fc_high, fs)
Call_filter_series ==
    pc = "call" /\ arg.f = "filter_series" /\ Returns(filter_series(arg.x, arg.fc))

\* autocorr_steps(data): its local corr and the len(peaks) it returns
Call_autocorr_steps ==
    /\ pc = "call"
    /\ arg.f = "autocorr_steps"
    /\ Returns([corr |-> autocorr(arg.x.v), n_peaks |-> autocorr_steps(arg.x)])

FunNext ==
    \/ Call_ewm \/ Call_low_pass \/ Call_high_pass \/ Call_band_pass
    \/ Call_filter_series \/ Call_autocorr_steps

FunSpec == FunInit /\ [][FunNext]_vars

\* C16: a column of raw estimates that all equal one number k is smoothed
\* to a column of the same length that equals k at every index.
C16_ConstantStaysConstant ==
    (/\ pc = "returned"
     /\ arg.f = "ewm"
     /\ \A i \in 1..Len(arg.x) : arg.x[i] = arg.x[1])
    => /\ Len(ret) = Len(arg.x)
       /\ \A i \in 1..Len(ret) : ret[i] = arg.x[1]

\* a constant column of the longest length and a value other than 0, smoothed
C16_Witness ==
    /\ pc = "returned"
    /\ arg.f = "ewm"
    /\ Len(arg.x) = MaxSeriesLen
    /\ \A i \in 1..Len(arg.x) : arg.x[i] = RInt(78)
    /\ Len(ret) = MaxSeriesLen

\* a filter was applied to an impulse and returned
FilterReturned ==
    /\ pc = "returned"
    /\ arg.f \in {"low_pass", "high_pass", "band_pass"}
    /\ ret.exc = "none"

\* the output is larger in magnitude at the index of the impulse than at
\* every other index
PeakAtImpulse ==
    \A j \in 1..Len(ret.x.v) :
        j # arg.at => Abs(ret.x.v[j]) < Abs(ret.x.v[arg.at])

\* the number of samples filtfilt pads at either end for the mode called
PadOf(f) == PadLen(IF f = "band_pass" THEN "bandpass"
                   ELSE IF f = "high_pass" THEN "highpass" ELSE "lowpass")

---------------------------------------------------------------------------
(* Running the aggregation cell a second time, after the whole notebook    *)
(* has run: every global the first run and the later cells bound is still  *)
(* bound.                                                                  *)

Rerun ==
    /\ pc = "done"
    /\ run = 1
    /\ run' = 2
    /\ first_spms' = spms
    /\ pc' = "aggregate"
    /\ UNCHANGED <<csv, df, gravity_vector, pca0, oracle, n_done, calls, spms,
                   acceleration_spm_df, track, exc, peak_detection_kwargs,
                   gyro_vars, fun_vars>>

RerunNext == Next \/ Rerun

RerunSpec == Init /\ [][RerunNext]_vars

\* C17: a second run of the aggregation cell over the same samples records
\* the same per-window results as the first, window by window: the same
\* starts and the same three values.
C17_RerunSameEstimates ==
    (run = 2 /\ pc # "aggregate") =>
        /\ Len(spms) <= Len(first_spms)
        /\ \A i \in 1..Len(spms) : spms[i] = first_spms[i]
        /\ Smoothed => spms = first_spms

\* the second run finished its loop over several windows with steps in them
C17_Witness ==
    /\ run = 2
    /\ Smoothed
    /\ Len(spms) >= 2
    /\ spms = first_spms
    /\ \E i \in 1..Len(spms) : spms[i].peak_detection_spm[1] > 0

\* the three values of a recorded window result, each of them a number
AllThreeValues(spm) ==
    /\ DOMAIN spm = {"name", "peak_detection_spm", "fft_spm", "autocorrelation_spm"}
    /\ spm.peak_detection_spm[2] # 0
    /\ spm.fft_spm[2] # 0
    /\ spm.autocorrelation_spm[2] # 0

\* C18: every window result recorded, by the acceleration loop and by the
\* rotation loop, holds a value for all three methods, and it is the result
\* of a call in which all three counters ran; a call that raised recorded
\* nothing, whichever counters had already run.
C18_NoPartialResult ==
    /\ Len(spms) <= Len(calls)
    /\ Len(calls) <= Len(spms) + 1
    /\ \A i \in 1..Len(spms) :
          /\ AllThreeValues(spms[i])
          /\ calls[i].peak = "ok"
          /\ calls[i].fft = "ok"
          /\ calls[i].autocorrelation = "ok"
    /\ Len(calls) = Len(spms) + 1 =>
          /\ pc = "raised"
          /\ calls[Len(calls)].autocorrelation # "ok"
    /\ Len(gyro_spms) <= Len(gyro_calls)
    /\ \A i \in 1..Len(gyro_spms) :
          /\ AllThreeValues(gyro_spms[i])
          /\ gyro_calls[i].magnitude = "ok"

\* a run stopped in a window whose peak count was already computed when the
\* spectral filter raised, after earlier windows had been recorded
C18_Witness ==
    /\ pc = "raised"
    /\ Len(spms) >= 1
    /\ Len(calls) = Len(spms) + 1
    /\ calls[Len(calls)].peak = "ok"
    /\ calls[Len(calls)].fft = "raised"

\* the PCA cell has just run over acceleration that varies along one axis
\* only (no later cell assigns df or its column pca0)
OneAxisExtracted ==
    /\ pc = "aggregate"
    /\ run = 1
    /\ Len(pca0.v) = Len(df)
    /\ Len(df) > 0
    /\ Cardinality(VaryingAxes(df)) = 1

\* sample i of the column pca0, as a rational
Projection(i) == RMul(RInt(pca0.v[i]), pca0.s)

\* the mean of column c of the gravity-corrected acceleration
AxisMean(c) ==
    RDiv(RSum([i \in 1..Len(df) |-> df[i].a[c]], 1, Len(df)), RInt(Len(df)))

\* C19 as stated: when the gravity-corrected acceleration varies along one
\* coordinate axis only, the projection of every sample equals the sample's
\* raw value on that axis, up to one sign, with no offset subtracted.
C19_ProjectionIsRawAxis ==
    OneAxisExtracted =>
        \E c \in VaryingAxes(df), sgn \in {-1, 1} :
            \A i \in 1..Len(df) : Projection(i) = RMul(RInt(sgn), df[i].a[c])

\* C19: when the gravity-corrected acceleration varies along one coordinate
\* axis only, the projection of every sample equals, up to one sign for the
\* whole recording, the sample's value on that axis minus the mean of that
\* axis over the recording.
C19_ProjectionIsCentredAxis ==
    OneAxisExtracted =>
        \E c \in VaryingAxes(df), sgn \in {-1, 1} :
            \A i \in 1..Len(df) :
                Projection(i) = RMul(RInt(sgn), RSub(df[i].a[c], AxisMean(c)))

\* a projection over one varying axis whose mean is not zero, so that some
\* sample's projection differs in magnitude from its raw value
C19_Witness ==
    /\ OneAxisExtracted
    /\ \E c \in VaryingAxes(df) :
          /\ AxisMean(c)[1] # 0
          /\ \E i \in 1..Len(df) :
                /\ df[i].a[c][1] # 0
                /\ Projection(i) # df[i].a[c]
                /\ Projection(i) # RSub(RInt(0), df[i].a[c])

\* the input of the call is a constant series other than zero
ConstantInput ==
    /\ arg.x.v[1] # 0
    /\ \A i \in 1..Len(arg.x.v) : arg.x.v[i] = arg.x.v[1]

\* butter accepts the cutoff: strictly between 0 and fs / 2
Accepted(fc) == fc # None /\ 0 < fc[1] /\ fc[1] * 2 < fs * 10

\* the call returned a series of the input's length
ReturnedSeries == ret.exc = "none" /\ Len(ret.x.v) = Len(arg.x.v)

\* the series returned is zero throughout
Suppressed == \A i \in 1..Len(ret.x.v) : ret.x.v[i] = 0

\* the series returned is constant, not zero, and has the input's sign
Passed ==
    \A i \in 1..Len(ret.x.v) :
        ret.x.v[i] = ret.x.v[1] /\ ret.x.v[i] * arg.x.v[1] > 0

\* C21: filter_series picks the filter from the cutoffs that are given.
\* With neither it returns the input unchanged.  With both it is the
\* band-pass: refused unless 0 < fc_low < fc_high < fs / 2 and unless the
\* series is longer than 33 samples, and a constant is suppressed.  With
\* fc_low alone it is the high-pass: refused unless the cutoff is accepted
\* and the series is longer than 18 samples, and a constant is suppressed.
\* With fc_high alone it is the low-pass: refused likewise, and a constant
\* is passed.
C21_FilterKindFromCutoffs ==
    (pc = "returned" /\ arg.f = "filter_series") =>
        LET fc_low == arg.fc[1]
            fc_high == arg.fc[2]
            N == Len(arg.x.v)
        IN  /\ (fc_low = None /\ fc_high = None) =>
                  ret.exc = "none" /\ ret.x = arg.x
            /\ (fc_low # None /\ fc_high # None) =>
                  IF Accepted(fc_low) /\ Accepted(fc_high) /\ fc_low[1] < fc_high[1]
                     /\ N > 3 * (2 * ButterOrder + 1)
                  THEN ReturnedSeries /\ (ConstantInput => Suppressed)
                  ELSE ret.exc = "ValueError"
            /\ (fc_low # None /\ fc_high = None) =>
                  IF Accepted(fc_low) /\ N > 3 * (ButterOrder + 1)
                  THEN ReturnedSeries /\ (ConstantInput => Suppressed)
                  ELSE ret.exc = "ValueError"
            /\ (fc_low = None /\ fc_high # None) =>
                  IF Accepted(fc_high) /\ N > 3 * (ButterOrder + 1)
                  THEN ReturnedSeries /\ (ConstantInput => Passed)
                  ELSE ret.exc = "ValueError"

\* filter_series given fc_low alone answered a constant series of 19
\* samples, too short for the band-pass, with zeros
C21_Witness ==
    /\ pc = "returned"
    /\ arg.f = "filter_series"
    /\ arg.fc = <<Some(5), None>>
    /\ Len(arg.x.v) = 19
    /\ ConstantInput
    /\ ReturnedSeries
    /\ Suppressed

\* the autocorrelation of the series x at a lag: the sum of x[n] * x[n + lag]
AtLag(x, lag) ==
    ISum([n \in 1..(Len(x) - lag) |-> x[n] * x[n + lag]], 1, Len(x) - lag)

\* the interior local maxima of c: the runs of equal values, away from both
\* ends, that are higher than the value before and the value after them
InteriorMaxima(c) ==
    {l \in 2..(Len(c) - 1) :
        /\ c[l - 1] < c[l]
        /\ \E r \in l..(Len(c) - 1) :
              /\ \A j \in l..r : c[j] = c[l]
              /\ c[r + 1] < c[l]}

\* C22: for a window series of N samples the autocorrelation counter
\* searches exactly N - 1 values, the autocorrelation at the lags 1..N-1
\* (the value at lag N - k is the k-th), and returns the number of their
\* interior local maxima; the zero-lag value is not among them.
C22_OneSidedWithoutZeroLag ==
    (pc = "returned" /\ arg.f = "autocorr_steps") =>
        LET N == Len(arg.x.v)
        IN  /\ Len(ret.corr) = N - 1
            /\ \A k \in 1..(N - 1) : ret.corr[k] = AtLag(arg.x.v, N - k)
            /\ ret.n_peaks = Cardinality(InteriorMaxima(ret.corr))

\* a series of 6 samples whose autocorrelation has an interior maximum and
\* whose zero-lag value is higher than all the values searched
C22_Witness ==
    /\ pc = "returned"
    /\ arg.f = "autocorr_steps"
    /\ Len(arg.x.v) = 6
    /\ ret.n_peaks >= 1
    /\ \A k \in 1..Len(ret.corr) : ret.corr[k] < AtLag(arg.x.v, 0)

\* the times of the samples in the window of call c
WindowTimes(c) == {df[c.frame[k]].time : k \in 1..Len(c.frame)}

\* C23 as stated: every window the aggregation loop evaluates holds at
\* least two samples with distinct times, so its dt is strictly positive.
C23_EveryWindowTwoSamples ==
    \A i \in 1..Len(calls) :
        /\ Cardinality(WindowTimes(calls[i])) >= 2
        /\ calls[i].dt[2] # 0
        /\ calls[i].dt[1] > 0

\* C23: the dt of a window the aggregation loop evaluates is strictly
\* positive exactly when the window holds two samples with distinct times;
\* a window that holds a single sample has dt = 0.  The steps-per-minute
\* conversion is reached only for windows of at least 34 samples: for a
\* smaller window the spectral filter raises first and nothing is recorded.
C23_DtPositiveIffTwoTimes ==
    \A i \in 1..Len(calls) :
        LET c == calls[i]
        IN  /\ (Cardinality(WindowTimes(c)) >= 2) <=> (c.dt[2] # 0 /\ c.dt[1] > 0)
            /\ Cardinality(WindowTimes(c)) = 1 => c.dt = <<0, 1>>
            /\ c.frame_len < MinSamples => (c.fft = "raised" /\ Len(spms) < i)
            /\ i <= Len(spms) => c.frame_len >= MinSamples

\* the loop evaluated a second window that holds a single sample: its dt is
\* 0 and the spectral filter raised
C23_Witness ==
    /\ Len(calls) >= 2
    /\ calls[Len(calls)].frame_len = 1
    /\ calls[Len(calls)].dt = <<0, 1>>
    /\ calls[Len(calls)].fft = "raised"
    /\ Len(spms) = Len(calls) - 1

====
